---- MODULE Spec2Model ----
(***************************************************************************)
(* Model of the AKP05 input decoder (src/inputs.rs) and of the software-   *)
(* to-physical button index table (src/mappings.rs).                       *)
(*                                                                         *)
(* Rust vectors are modelled as functions over 0..len-1 so that the model  *)
(* keeps the 0-based indices of the source.  Byte codes are written in     *)
(* hexadecimal (\H90 is 0x90).                                             *)
(***************************************************************************)
EXTENDS Integers, FiniteSets, TLC

VARIABLES pc, input, state, result, software_index, physical

vars == <<pc, input, state, result, software_index, physical>>

\* Largest software index a caller passes to map_button_index in the model
\* (usize has no such limit; 15.. are the invalid indices).
MaxSoftwareIndex == 20

\* mappings.rs: pub const KEY_COUNT / ENCODER_COUNT
KEY_COUNT == 10
ENCODER_COUNT == 4

\* The values of a u8.
U8 == 0..255

-----------------------------------------------------------------------------
\* Vec helpers: vec![x; n], Vec::len, and v[i] = x.
VecOf(x, n) == [i \in 0..(n - 1) |-> x]

VecLen(v) == Cardinality(DOMAIN v)

IsVec(v) == DOMAIN v = 0..(VecLen(v) - 1)

VecSet(v, i, x) == [v EXCEPT ![i] = x]

\* Result<DeviceInput, MirajazzError>: the three DeviceInput variants the
\* decoder builds, and Err(MirajazzError::BadData).
ButtonStateChange(v) == [kind |-> "ButtonStateChange", vals |-> v]

EncoderTwist(v) == [kind |-> "EncoderTwist", vals |-> v]

EncoderStateChange(v) == [kind |-> "EncoderStateChange", vals |-> v]

BadData == [kind |-> "BadData", vals |-> VecOf(FALSE, 0)]

NoResult == [kind |-> "None", vals |-> VecOf(FALSE, 0)]

-----------------------------------------------------------------------------
\* fn read_button_states(states: &[u8]) -> Vec<bool>

read_button_states_shifted(states) ==
    [i \in 0..(KEY_COUNT - 1) |-> states[i] # 0]

read_button_states(states) ==
    [i \in 0..(KEY_COUNT - 1) |-> states[i + 1] # 0]

\* fn read_akp05e_button_press(input: u8, state: u8)
\* (input - 1) is taken in u8; the dispatch only passes 0x01..=0x0A.
read_akp05e_button_press(in, st) ==
    LET physical_button == (in - 1) % 256
        ui_position == physical_button
        button_states == VecSet(VecOf(0, KEY_COUNT + 2) , 0, 1)
    IN  IF physical_button >= KEY_COUNT
        THEN BadData
        ELSE ButtonStateChange(
                 read_button_states(VecSet(button_states, ui_position + 1, st)))

\* fn read_akp05e_encoder_value(input: u8)
read_akp05e_encoder_value_slot0(in) ==
    LET encoder_values == VecOf(0, ENCODER_COUNT)
    IN  CASE in = \H30 -> EncoderTwist(VecSet(encoder_values, 0, -1))
          [] in = \H31 -> EncoderTwist(VecSet(encoder_values, 0, 1))
          [] in = \H50 -> EncoderTwist(VecSet(encoder_values, 1, -1))
          [] in = \H51 -> EncoderTwist(VecSet(encoder_values, 1, 1))
          [] in = \H90 -> EncoderTwist(VecSet(encoder_values, 0, -1))
          [] in = \H91 -> EncoderTwist(VecSet(encoder_values, 0, 1))
          [] in = \H70 -> EncoderTwist(VecSet(encoder_values, 3, -1))
          [] in = \H71 -> EncoderTwist(VecSet(encoder_values, 3, 1))
          [] OTHER -> BadData

read_akp05e_encoder_value(in) ==
    LET encoder_values == VecOf(0, ENCODER_COUNT)
    IN  CASE in = \H30 -> EncoderTwist(VecSet(encoder_values, 0, -1))
          [] in = \H31 -> EncoderTwist(VecSet(encoder_values, 0, 1))
          [] in = \H50 -> EncoderTwist(VecSet(encoder_values, 1, -1))
          [] in = \H51 -> EncoderTwist(VecSet(encoder_values, 1, 1))
          [] in = \H90 -> EncoderTwist(VecSet(encoder_values, 2, -1))
          [] in = \H91 -> EncoderTwist(VecSet(encoder_values, 2, 1))
          [] in = \H70 -> EncoderTwist(VecSet(encoder_values, 3, -1))
          [] in = \H71 -> EncoderTwist(VecSet(encoder_values, 3, 1))
          [] OTHER -> BadData

\* fn read_akp05e_encoder_value_alt(input: u8)
read_akp05e_encoder_value_alt_long(in) ==
    LET encoder_values == VecOf(0, ENCODER_COUNT + 1)
    IN  CASE in = \HA0 -> EncoderTwist(VecSet(encoder_values, 0, -1))
          [] in = \HA1 -> EncoderTwist(VecSet(encoder_values, 0, 1))
          [] OTHER -> ButtonStateChange(VecOf(FALSE, 10))

read_akp05e_encoder_value_alt(in) ==
    LET encoder_values == VecOf(0, ENCODER_COUNT)
    IN  CASE in = \HA0 -> EncoderTwist(VecSet(encoder_values, 0, -1))
          [] in = \HA1 -> EncoderTwist(VecSet(encoder_values, 0, 1))
          [] OTHER -> ButtonStateChange(VecOf(FALSE, 10))

\* fn read_akp05e_touchscreen(_input: u8, _state: u8)
read_akp05e_touchscreen_echo(in, st) ==
    ButtonStateChange(VecSet(VecOf(FALSE, 10), in % 16, st # 0))

read_akp05e_touchscreen(in, st) ==
    ButtonStateChange(VecOf(FALSE, 10))

\* fn read_akp05e_encoder_press(input: u8, state: u8)
read_akp05e_encoder_press_swapped(in, st) ==
    LET encoder_states == VecOf(FALSE, ENCODER_COUNT)
    IN  CASE in = \H37 -> EncoderStateChange(VecSet(encoder_states, 0, st # 0))
          [] in = \H35 -> EncoderStateChange(VecSet(encoder_states, 1, st # 0))
          [] in = \H33 -> EncoderStateChange(VecSet(encoder_states, 3, st # 0))
          [] in = \H36 -> EncoderStateChange(VecSet(encoder_states, 2, st # 0))
          [] OTHER -> ButtonStateChange(VecOf(FALSE, 10))

read_akp05e_encoder_press_raw(in, st) ==
    LET encoder_states == VecOf(FALSE, ENCODER_COUNT)
    IN  CASE in = \H37 -> EncoderStateChange(VecSet(encoder_states, 0, st = 1))
          [] in = \H35 -> EncoderStateChange(VecSet(encoder_states, 1, st = 1))
          [] in = \H33 -> EncoderStateChange(VecSet(encoder_states, 2, st = 1))
          [] in = \H36 -> EncoderStateChange(VecSet(encoder_states, 3, st = 1))
          [] OTHER -> ButtonStateChange(VecOf(FALSE, 10))

read_akp05e_encoder_press(in, st) ==
    LET encoder_states == VecOf(FALSE, ENCODER_COUNT)
    IN  CASE in = \H37 -> EncoderStateChange(VecSet(encoder_states, 0, st # 0))
          [] in = \H35 -> EncoderStateChange(VecSet(encoder_states, 1, st # 0))
          [] in = \H33 -> EncoderStateChange(VecSet(encoder_states, 2, st # 0))
          [] in = \H36 -> EncoderStateChange(VecSet(encoder_states, 3, st # 0))
          [] OTHER -> ButtonStateChange(VecOf(FALSE, 10))

\* fn process_akp05e_input(input: u8, state: u8): the match, arm by arm.
process_akp05e_input(in, st) ==
    CASE in \in \H01..\H0A -> read_akp05e_button_press(in, st)
      [] in \in {\H90, \H91, \H50, \H51, \H60, \H61, \H70, \H71} ->
             read_akp05e_encoder_value(in)
      [] in \in {\HA0, \HA1} -> read_akp05e_encoder_value_alt(in)
      [] in \in \H33..\H37 -> read_akp05e_encoder_press(in, st)
      [] in \in \H40..\H4F -> read_akp05e_touchscreen(in, st)
      [] OTHER -> ButtonStateChange(VecOf(FALSE, 10))

\* pub fn process_input(input: u8, state: u8)
process_input(in, st) == process_akp05e_input(in, st)

-----------------------------------------------------------------------------
\* Kind::map_button_index(&self, software_index: usize) -> usize.
\* The call either returns a physical index or panics.
Returned(n) == [kind |-> "Returned", value |-> n]

Panicked(n) == [kind |-> "Panicked", value |-> n]

NotCalled == [kind |-> "NotCalled", value |-> 0]

map_button_index_slip(i) ==
    CASE i = 0 -> Returned(10) [] i = 1 -> Returned(11) [] i = 2 -> Returned(12)
      [] i = 3 -> Returned(13) [] i = 4 -> Returned(13)
      [] i = 5 -> Returned(5) [] i = 6 -> Returned(6) [] i = 7 -> Returned(7)
      [] i = 8 -> Returned(8) [] i = 9 -> Returned(9)
      [] i = 10 -> Returned(0) [] i = 11 -> Returned(1) [] i = 12 -> Returned(2)
      [] i = 13 -> Returned(3) [] i = 14 -> Returned(4)
      [] OTHER -> Panicked(i)

map_button_index_passthrough(i) ==
    CASE i = 0 -> Returned(10) [] i = 1 -> Returned(11) [] i = 2 -> Returned(12)
      [] i = 3 -> Returned(13) [] i = 4 -> Returned(14)
      [] i = 5 -> Returned(5) [] i = 6 -> Returned(6) [] i = 7 -> Returned(7)
      [] i = 8 -> Returned(8) [] i = 9 -> Returned(9)
      [] i = 10 -> Returned(0) [] i = 11 -> Returned(1) [] i = 12 -> Returned(2)
      [] i = 13 -> Returned(3) [] i = 14 -> Returned(4)
      [] OTHER -> Returned(i)

map_button_index(i) ==
    CASE i = 0 -> Returned(10) [] i = 1 -> Returned(11) [] i = 2 -> Returned(12)
      [] i = 3 -> Returned(13) [] i = 4 -> Returned(14)
      [] i = 5 -> Returned(5) [] i = 6 -> Returned(6) [] i = 7 -> Returned(7)
      [] i = 8 -> Returned(8) [] i = 9 -> Returned(9)
      [] i = 10 -> Returned(0) [] i = 11 -> Returned(1) [] i = 12 -> Returned(2)
      [] i = 13 -> Returned(3) [] i = 14 -> Returned(4)
      [] OTHER -> Panicked(i)

-----------------------------------------------------------------------------
\* The caller's view: a report (input, state) arrives, process_input decodes
\* it, the event is handed on; independently the host asks for the physical
\* index of a software index.
Init ==
    /\ pc = "idle"
    /\ input = 0
    /\ state = 0
    /\ result = NoResult
    /\ software_index = 0
    /\ physical = NotCalled

ReceiveReport ==
    /\ pc = "idle"
    /\ \E in \in U8, st \in U8 :
          /\ input' = in
          /\ state' = st
    /\ pc' = "received"
    /\ UNCHANGED <<result, software_index, physical>>

ProcessInput ==
    /\ pc = "received"
    /\ result' = process_input(input, state)
    /\ pc' = "decoded"
    /\ UNCHANGED <<input, state, software_index, physical>>

MapButtonIndex ==
    /\ pc = "idle"
    /\ \E i \in 0..MaxSoftwareIndex :
          /\ software_index' = i
          /\ physical' = map_button_index(i)
    /\ pc' = "mapped"
    /\ UNCHANGED <<input, state, result>>

\* The event (or index) is consumed; a panic of map_button_index ends the run.
Return ==
    /\ \/ pc = "decoded"
       \/ pc = "mapped" /\ physical.kind = "Returned"
    /\ pc' = "idle"
    /\ input' = 0
    /\ state' = 0
    /\ result' = NoResult
    /\ software_index' = 0
    /\ physical' = NotCalled

Next ==
    \/ ReceiveReport
    \/ ProcessInput
    \/ MapButtonIndex
    \/ Return

Spec == Init /\ [][Next]_vars

-----------------------------------------------------------------------------
\* Code sets the properties speak about.
ButtonCodes == \H01..\H0A

RotationCodes == {\H90, \H91, \H50, \H51, \H60, \H61, \H70, \H71, \HA0, \HA1}

ClickRange == \H33..\H37

AssignedClickCodes == {\H37, \H35, \H33, \H36}

TouchCodes == \H40..\H4F

ClickSlot(c) ==
    CASE c = \H37 -> 0 [] c = \H35 -> 1 [] c = \H33 -> 2 [] c = \H36 -> 3

AllFalseButtons == ButtonStateChange([i \in 0..9 |-> FALSE])

NonZeroSlots(v) == {i \in DOMAIN v : v[i] # 0}

TrueSlots(v) == {i \in DOMAIN v : v[i]}

\* C1: process_input returns Ok for every (code, state) unless the code is a
\* button code whose 0-based index is >= KEY_COUNT; that is the only case of
\* Err(BadData).
C1_ErrorOnlyForOutOfRangeButton ==
    pc = "decoded" =>
        (result.kind = "BadData"
            <=> (input \in ButtonCodes /\ input - 1 >= KEY_COUNT))

\* C2: every rotation code (0x90/0x91, 0x50/0x51, 0x60/0x61, 0x70/0x71,
\* 0xA0/0xA1) gives an EncoderTwist of length 4 with exactly one non-zero
\* entry, -1 for the left code (low nibble 0) and +1 for the right code.
C2_RotationGivesOneSignedEntry ==
    (pc = "decoded" /\ input \in RotationCodes) =>
        /\ result.kind = "EncoderTwist"
        /\ DOMAIN result.vals = 0..3
        /\ Cardinality(NonZeroSlots(result.vals)) = 1
        /\ \A i \in NonZeroSlots(result.vals) :
              result.vals[i] = (IF input % 16 = 0 THEN -1 ELSE 1)

\* C3: a button code c in 1..10 with state s gives a ButtonStateChange of
\* length 10 whose entry c-1 is (s # 0) and whose other entries are false.
C3_ButtonSnapshot ==
    (pc = "decoded" /\ input \in ButtonCodes) =>
        result = ButtonStateChange(
                     [i \in 0..9 |-> (i = input - 1) /\ (state # 0)])

C3_Witness ==
    /\ pc = "decoded"
    /\ input = \H03
    /\ state = 1
    /\ result.kind = "ButtonStateChange"
    /\ TrueSlots(result.vals) = {2}

\* C4 as stated: every code in 0x33..0x37 is the click code of an encoder
\* and gives an EncoderStateChange of length 4 with that encoder's slot set
\* to (s # 0) and the rest false.
C4_EveryCodeOfRangeIsAClick ==
    (pc = "decoded" /\ input \in ClickRange) =>
        /\ result.kind = "EncoderStateChange"
        /\ \E slot \in 0..3 :
              /\ input \in AssignedClickCodes => slot = ClickSlot(input)
              /\ result.vals = [i \in 0..3 |-> (i = slot) /\ (state # 0)]

\* C4 amended: the click codes 0x37, 0x35, 0x33, 0x36 give an
\* EncoderStateChange of length 4 with slot 0, 1, 2, 3 respectively set to
\* (s # 0) and the rest false; 0x34, the remaining code of the range, is
\* assigned to no encoder and gives the all-false ButtonStateChange of 10.
C4_AssignedClickCodes ==
    (pc = "decoded" /\ input \in ClickRange) =>
        IF input \in AssignedClickCodes
        THEN result = EncoderStateChange(
                 [i \in 0..3 |-> (i = ClickSlot(input)) /\ (state # 0)])
        ELSE input = \H34 /\ result = AllFalseButtons

C4_Witness ==
    /\ pc = "decoded"
    /\ input = \H33
    /\ state = 1
    /\ result.kind = "EncoderStateChange"
    /\ TrueSlots(result.vals) = {2}

\* C5: every code that is no button code, no rotation code and no encoder
\* click code (touch codes 0x40..0x4F, 0x00, 0x0B, 0xFF, ...) gives, for
\* every state byte, a ButtonStateChange of 10 entries, all false.
C5_OtherCodesAreNoOps ==
    (/\ pc = "decoded"
     /\ input \notin ButtonCodes
     /\ input \notin RotationCodes
     /\ input \notin AssignedClickCodes) =>
        result = AllFalseButtons

C5_Witness ==
    /\ pc = "decoded"
    /\ input = \H4A
    /\ state = 5
    /\ result = AllFalseButtons

\* C6 as stated: code 0x90 gives EncoderTwist [-1,0,0,0] for every state.
C6_Code90IsSlot0 ==
    (pc = "decoded" /\ input = \H90) =>
        result = EncoderTwist([i \in 0..3 |-> IF i = 0 THEN -1 ELSE 0])

\* C6 amended: code 0x90 gives EncoderTwist [0,0,-1,0] for every state:
\* the left rotation is placed in slot 2 (encoder 3), slots 0, 1, 3 are 0.
C6_Code90IsSlot2 ==
    (pc = "decoded" /\ input = \H90) =>
        result = EncoderTwist([i \in 0..3 |-> IF i = 2 THEN -1 ELSE 0])

C6_Witness ==
    /\ pc = "decoded"
    /\ input = \H90
    /\ state = 7
    /\ result.kind = "EncoderTwist"
    /\ NonZeroSlots(result.vals) = {2}

\* C7: on software indices 0..14 map_button_index is the table
\* i -> i+10 (0..4), i -> i (5..9), i -> i-10 (10..14), a bijection onto
\* 0..14, and applying it twice returns the original index.
C7_MapIsInvolutiveBijection ==
    (pc = "mapped" /\ software_index \in 0..14) =>
        /\ physical.kind = "Returned"
        /\ physical.value =
              (IF software_index <= 4 THEN software_index + 10
               ELSE IF software_index <= 9 THEN software_index
               ELSE software_index - 10)
        /\ physical.value \in 0..14
        /\ \A j \in 0..14 :
              j # software_index => map_button_index(j) # physical
        /\ map_button_index(physical.value) = Returned(software_index)

C7_Witness ==
    /\ pc = "mapped"
    /\ software_index = 12
    /\ physical = Returned(2)

\* C8: every event's vector has the fixed length: a ButtonStateChange has
\* KEY_COUNT = 10 entries, an EncoderTwist has ENCODER_COUNT = 4 entries
\* each in {-1, 0, 1}, an EncoderStateChange has ENCODER_COUNT = 4 entries.
C8_VectorLengths ==
    pc = "decoded" =>
        /\ KEY_COUNT = 10 /\ ENCODER_COUNT = 4
        /\ result.kind = "ButtonStateChange" =>
              /\ DOMAIN result.vals = 0..(KEY_COUNT - 1)
              /\ \A i \in DOMAIN result.vals : result.vals[i] \in BOOLEAN
        /\ result.kind = "EncoderTwist" =>
              /\ DOMAIN result.vals = 0..(ENCODER_COUNT - 1)
              /\ \A i \in DOMAIN result.vals : result.vals[i] \in {-1, 0, 1}
        /\ result.kind = "EncoderStateChange" =>
              /\ DOMAIN result.vals = 0..(ENCODER_COUNT - 1)
              /\ \A i \in DOMAIN result.vals : result.vals[i] \in BOOLEAN

C8_Witness ==
    /\ pc = "decoded"
    /\ input = \HA1
    /\ result.kind = "EncoderTwist"
    /\ VecLen(result.vals) = 4
    /\ IsVec(result.vals)

\* C9: map_button_index with a software index >= 15 panics, and no index
\* outside 0..14 is mapped to a value.
C9_InvalidIndexPanics ==
    pc = "mapped" =>
        /\ software_index >= 15 => physical = Panicked(software_index)
        /\ physical.kind = "Returned" => software_index \in 0..14

C9_Witness ==
    /\ pc = "mapped"
    /\ software_index = 15
    /\ physical.kind = "Panicked"

\* C10: the state byte matters only through (state # 0): two state bytes
\* that agree on it give equal results for the same code; the variant is
\* fixed by the code alone; rotation, touch and unknown codes give the same
\* result for every state byte.
C10_StateOnlyThroughNonZero ==
    pc = "decoded" =>
        \A s2 \in U8 :
            LET r2 == process_input(input, s2)
            IN  /\ r2.kind = result.kind
                /\ (s2 # 0) = (state # 0) => r2.vals = result.vals
                /\ (input \notin ButtonCodes /\ input \notin ClickRange) =>
                       r2.vals = result.vals

C10_Witness ==
    /\ pc = "decoded"
    /\ input = \H36
    /\ state = 2
    /\ result = process_input(\H36, 1)
    /\ result # process_input(\H36, 0)

====
